---- MODULE Spec2Model ----
(***************************************************************************)
(* Model of the generate-execute-diagnose-retry loop of LLM_DataPipeline:  *)
(*   Utilities/re.py         extract_python_code  (Code Extractor),        *)
(*                           extract_code_blocks, is_valid_python_code     *)
(*   Utilities/code_exec.py  execute_code_capture_output, execute_code_safe*)
(*   mainV3.py               execute_with_retry   (classifier + loop),     *)
(*                           main (the stages and the session record)      *)
(*   ollama_client.py        OllamaClient.chat    (conversation history)   *)
(* Text is modelled as a sequence of one-character strings, so substring   *)
(* search, splitting, stripping and regular-expression matching are        *)
(* computed character by character, as Python computes them.  The one     *)
(* exception is the grave accent U+0060, which a TLA+ string cannot hold:  *)
(* it is written "BQ" and is a single character of the text.               *)
(***************************************************************************)
EXTENDS Integers, Sequences, FiniteSets, TLC

VARIABLES
    pc,           \* control point of execute_with_retry
    max_retries,  \* argument max_retries
    attempt,      \* loop variable of for attempt in range(max_retries)
    prompt,       \* local prompt: the next request text
    result,       \* local result: the reply of client.chat
    code,         \* local code (Unbound until first assigned)
    output,       \* local output (Unbound until first assigned)
    ret,          \* what the call handed to its caller: a tuple or a fault
    initial_prompt, \* argument initial_prompt
    requests,     \* number of client.chat calls made by this run
    faults,       \* number of attempts whose program raised (history)
    last,         \* record of the attempt made last (history)
    probe         \* a pure function under test: its input and its result

vars == << pc, max_retries, initial_prompt, attempt, prompt, result, code,
           output, ret, requests, faults, last, probe >>

loopVars == << pc, max_retries, initial_prompt, attempt, prompt, result, code,
               output, ret, requests, faults, last >>

(***************************************************************************)
(* Bounds of the model.                                                    *)
(***************************************************************************)
MaxRetries == 3
MaxLines == 2
MaxFrags == 4
MaxStmts == 2
MaxCalls == 3

(***************************************************************************)
(* Text helpers: Python str operations on sequences of characters.         *)
(***************************************************************************)
Empty == << >>

\* needle occurs in hay at position i (1-based)
OccursAt(needle, hay, i) ==
    /\ i >= 1
    /\ i + Len(needle) - 1 <= Len(hay)
    /\ \A j \in 1..Len(needle) : hay[i + j - 1] = needle[j]

\* Python needle in hay
Contains(hay, needle) ==
    \E i \in 1..(Len(hay) - Len(needle) + 1) : OccursAt(needle, hay, i)

\* characters Python's str.strip() and the regex class \s both treat as space
IsSpace(c) == c \in {" ", "\n", "\t"}

\* Python s[a-1 : b] for 1-based positions a..b (empty when a > b)
Slice(s, a, b) == IF a > b THEN Empty ELSE SubSeq(s, a, b)

\* Python str.strip()
Strip(s) ==
    LET keep == {i \in 1..Len(s) : ~IsSpace(s[i])}
    IN  IF keep = {} THEN Empty
        ELSE LET lo == CHOOSE i \in keep : \A k \in keep : i <= k
                 hi == CHOOSE i \in keep : \A k \in keep : i >= k
             IN  SubSeq(s, lo, hi)

\* Python str.lower() of one character
Lower(c) ==
    CASE c = "A" -> "a" [] c = "B" -> "b" [] c = "C" -> "c" [] c = "D" -> "d"
      [] c = "E" -> "e" [] c = "F" -> "f" [] c = "G" -> "g" [] c = "H" -> "h"
      [] c = "I" -> "i" [] c = "J" -> "j" [] c = "K" -> "k" [] c = "L" -> "l"
      [] c = "M" -> "m" [] c = "N" -> "n" [] c = "O" -> "o" [] c = "P" -> "p"
      [] c = "Q" -> "q" [] c = "R" -> "r" [] c = "S" -> "s" [] c = "T" -> "t"
      [] c = "U" -> "u" [] c = "V" -> "v" [] c = "W" -> "w" [] c = "X" -> "x"
      [] c = "Y" -> "y" [] c = "Z" -> "z"
      [] OTHER -> c

\* least element of a non-empty set of integers
MinOf(S) == CHOOSE x \in S : \A y \in S : x <= y

\* Python str.find(sep, from): first occurrence at or after from, 0 if none
FindFrom(s, sep, from) ==
    LET occ == {i \in from..(Len(s) - Len(sep) + 1) : OccursAt(sep, s, i)}
    IN  IF occ = {} THEN 0 ELSE MinOf(occ)

\* Python str.split(sep) for a non-empty separator: the list of pieces
RECURSIVE SplitFrom(_, _, _)
SplitFrom(s, sep, from) ==
    LET i == FindFrom(s, sep, from)
    IN  IF i = 0 THEN << Slice(s, from, Len(s)) >>
        ELSE << Slice(s, from, i - 1) >> \o SplitFrom(s, sep, i + Len(sep))

Split(s, sep) == SplitFrom(s, sep, 1)

\* all sequences over S of length 0..n
RECURSIVE SeqsUpTo(_, _)
SeqsUpTo(S, n) ==
    IF n = 0 THEN { << >> }
    ELSE LET shorter == SeqsUpTo(S, n - 1)
         IN  shorter \cup { Append(s, x) : s \in {t \in shorter : Len(t) = n - 1}, x \in S }

\* concatenation of a sequence of texts
RECURSIVE Concat(_)
Concat(ss) == IF ss = << >> THEN Empty ELSE Head(ss) \o Concat(Tail(ss))

\* Python sep.join(ss)
RECURSIVE Join(_, _)
Join(ss, sep) ==
    IF ss = << >> THEN Empty
    ELSE IF Len(ss) = 1 THEN Head(ss)
    ELSE Head(ss) \o sep \o Join(Tail(ss), sep)

NL == << "\n" >>

(***************************************************************************)
(* Outcome classifier: mainV3.py lines 100-115, inside execute_with_retry. *)
(***************************************************************************)
error_indicators == <<
    <<"E","r","r","o","r",":">>,
    <<"E","x","c","e","p","t","i","o","n",":">>,
    <<"T","r","a","c","e","b","a","c","k">>,
    <<"N","a","m","e","E","r","r","o","r">>,
    <<"T","y","p","e","E","r","r","o","r">>,
    <<"V","a","l","u","e","E","r","r","o","r">>,
    <<"F","i","l","e","N","o","t","F","o","u","n","d","E","r","r","o","r">>,
    <<"I","m","p","o","r","t","E","r","r","o","r">>,
    <<"K","e","y","E","r","r","o","r">>,
    <<"A","t","t","r","i","b","u","t","e","E","r","r","o","r">>,
    <<"S","y","n","t","a","x","E","r","r","o","r">>,
    <<"M","o","d","u","l","e","N","o","t","F","o","u","n","d","E","r","r","o","r">>
>>

S_Warning == <<"W","a","r","n","i","n","g">>
S_FutureWarning == <<"F","u","t","u","r","e","W","a","r","n","i","n","g">>

\* any(e in l for e in error_indicators)
AnyIndicatorIn(text) ==
    \E k \in 1..Len(error_indicators) : Contains(text, error_indicators[k])

\* the loop's error check with any() where the code has all()
ClassifyAnyWarning(out) ==
    LET has_error    == AnyIndicatorIn(out)
        lines        == Split(out, NL)
        error_lines  == SelectSeq(lines, AnyIndicatorIn)
        warning_only == \E k \in 1..Len(error_lines) :
                            Contains(error_lines[k], S_Warning)
    IN  IF ~has_error THEN "Success"
        ELSE IF warning_only THEN "WarningOnlySuccess"
        ELSE "Failure"

\* the loop's error check: has_error after the warning filter, and which
\* branch decided it
Classify(out) ==
    LET has_error    == AnyIndicatorIn(out)
        lines        == Split(out, NL)
        error_lines  == SelectSeq(lines, AnyIndicatorIn)
        warning_only == \A k \in 1..Len(error_lines) :
                            \/ Contains(error_lines[k], S_Warning)
                            \/ Contains(error_lines[k], S_FutureWarning)
    IN  IF ~has_error THEN "Success"
        ELSE IF warning_only THEN "WarningOnlySuccess"
        ELSE "Failure"

(***************************************************************************)
(* execute_code_safe's success flag: code_exec.py lines 90-96.             *)
(***************************************************************************)
safe_indicators == <<
    <<"E","r","r","o","r",":">>,
    <<"E","x","c","e","p","t","i","o","n",":">>,
    <<"T","r","a","c","e","b","a","c","k">>
>>

SafeSuccess(out) ==
    ~ \E k \in 1..Len(safe_indicators) : Contains(out, safe_indicators[k])

(***************************************************************************)
(* Code Extractor: Utilities/re.py extract_python_code.                    *)
(* The four fence patterns all have the shape  OPEN \s*(.*?)\s* CLOSE      *)
(* under re.DOTALL; FenceSearch computes re.search for that shape the way  *)
(* the backtracking matcher does: leftmost start, first \s* greedy, the    *)
(* group lazy, second \s* greedy.                                          *)
(***************************************************************************)
S_Fence == <<"BQ","BQ","BQ">>
S_TagOpen == <<"BQ","BQ","BQ","p","y","t","h","o","n">>
S_Single == <<"'","'","'">>
S_Double == <<"\"","\"","\"">>
raw_keywords == << <<"i","m","p","o","r","t">>, <<"f","r","o","m">>, <<"d","e","f">>, <<"c","l","a","s","s">> >>

\* the literal lit matches text at position i (re.IGNORECASE when ci)
LitAt(lit, text, i, ci) ==
    /\ i >= 1
    /\ i + Len(lit) - 1 <= Len(text)
    /\ \A j \in 1..Len(lit) :
          IF ci THEN Lower(text[i + j - 1]) = Lower(lit[j])
                ELSE text[i + j - 1] = lit[j]

\* length of the run of whitespace starting at position p
SpaceRun(text, p) ==
    IF p > Len(text) THEN 0
    ELSE MinOf({q \in p..(Len(text) + 1) : q = Len(text) + 1 \/ ~(IsSpace(text[q]))}) - p

\* \s* CLOSE matches at position p
TailAt(text, p, close, ci) ==
    \E v \in 0..SpaceRun(text, p) : LitAt(close, text, p + v, ci)

\* the match of OPEN \s*(.*?)\s* CLOSE that starts at position i
GroupAt(text, i, open, close, ci) ==
    IF ~LitAt(open, text, i, ci) THEN [found |-> FALSE, group |-> Empty]
    ELSE
      LET e  == i + Len(open)
          \* (w, k): width of the first \s*, length of the lazy group
          ok(w, k) == TailAt(text, e + w + k, close, ci)
          ws == {w \in 0..SpaceRun(text, e) :
                    \E k \in 0..(Len(text) - (e + w) + 1) : ok(w, k)}
      IN  IF ws = {} THEN [found |-> FALSE, group |-> Empty]
          ELSE
            LET w == CHOOSE x \in ws : \A y \in ws : x >= y
                ks == {k \in 0..(Len(text) - (e + w) + 1) : ok(w, k)}
                k == CHOOSE x \in ks : \A y \in ks : x <= y
            IN  [found |-> TRUE, group |-> Slice(text, e + w, e + w + k - 1)]

\* re.search(OPEN \s*(.*?)\s* CLOSE, text, re.DOTALL): match.group(1)
FenceSearch(text, open, close, ci) ==
    LET starts == {i \in 1..Len(text) : GroupAt(text, i, open, close, ci).found}
    IN  IF starts = {} THEN [found |-> FALSE, group |-> Empty]
        ELSE GroupAt(text, CHOOSE i \in starts : \A j \in starts : i <= j,
                     open, close, ci)

\* re.search(r'^\s*(import|from|def|class)\s+', text, re.MULTILINE)
RawCodeSearch(text) ==
    \E s \in 1..Len(text) :
        /\ s = 1 \/ text[s - 1] = "\n"
        /\ \E w \in 0..SpaceRun(text, s) :
           \E k \in 1..Len(raw_keywords) :
              /\ LitAt(raw_keywords[k], text, s + w, FALSE)
              /\ SpaceRun(text, s + w + Len(raw_keywords[k])) >= 1

\* the extractor with the generic fence tried before the tagged one
extract_generic_first(text) ==
    IF text = Empty THEN Empty
    ELSE
      LET m1 == FenceSearch(text, S_TagOpen, S_Fence, TRUE)
          m2 == FenceSearch(text, S_Fence, S_Fence, FALSE)
          m3 == FenceSearch(text, S_Single, S_Single, FALSE)
          m4 == FenceSearch(text, S_Double, S_Double, FALSE)
      IN  IF m2.found THEN Strip(m2.group)
          ELSE IF m1.found THEN Strip(m1.group)
          ELSE IF m3.found THEN Strip(m3.group)
          ELSE IF m4.found THEN Strip(m4.group)
          ELSE IF RawCodeSearch(text) THEN Strip(text)
          ELSE Empty

extract_python_code(text) ==
    IF text = Empty THEN Empty
    ELSE
      LET m1 == FenceSearch(text, S_TagOpen, S_Fence, TRUE)
          m2 == FenceSearch(text, S_Fence, S_Fence, FALSE)
          m3 == FenceSearch(text, S_Single, S_Single, FALSE)
          m4 == FenceSearch(text, S_Double, S_Double, FALSE)
      IN  IF m1.found THEN Strip(m1.group)
          ELSE IF m2.found THEN Strip(m2.group)
          ELSE IF m3.found THEN Strip(m3.group)
          ELSE IF m4.found THEN Strip(m4.group)
          ELSE IF RawCodeSearch(text) THEN Strip(text)
          ELSE Empty

\* Utilities/re.py lines 77-91: compile(code, '<string>', 'exec') raises
\* SyntaxError for a text whose round brackets do not pair up; the codes of
\* this model have no other defect
is_valid_python_code(code_arg) ==
    LET depth(i) == Cardinality({j \in 1..i : code_arg[j] = "("})
                        - Cardinality({j \in 1..i : code_arg[j] = ")"})
    IN  /\ \A i \in 1..Len(code_arg) : depth(i) >= 0
        /\ depth(Len(code_arg)) = 0

(***************************************************************************)
(* Utilities/re.py extract_code_blocks: re.findall of the tagged pattern,  *)
(* then of the pattern with the lookahead (?!python), both under           *)
(* re.DOTALL | re.IGNORECASE.                                              *)
(***************************************************************************)
S_Python == <<"p","y","t","h","o","n">>

\* the match that starts at position i of the tagged pattern, or of the
\* pattern with (?!python) after the opening fence: its group and the
\* position right after the match
BlockMatchAt(text, i, tagged) ==
    LET open  == IF tagged THEN S_TagOpen ELSE S_Fence
        g     == GroupAt(text, i, open, S_Fence, TRUE)
        start == i + Len(open) + SpaceRun(text, i + Len(open))
        p     == start + Len(g.group)
    IN  IF g.found /\ (tagged \/ ~LitAt(S_Python, text, i + Len(S_Fence), TRUE))
        THEN [found |-> TRUE, group |-> g.group,
              stop |-> p + SpaceRun(text, p) + Len(S_Fence)]
        ELSE [found |-> FALSE, group |-> Empty, stop |-> i]

\* re.findall: the groups of the successive non-overlapping matches
RECURSIVE FindAllFrom(_, _, _)
FindAllFrom(text, from, tagged) ==
    LET starts == {i \in from..Len(text) : BlockMatchAt(text, i, tagged).found}
    IN  IF starts = {} THEN << >>
        ELSE LET m == BlockMatchAt(text, MinOf(starts), tagged)
             IN  << m.group >> \o FindAllFrom(text, m.stop, tagged)

\* lines 64-74
extract_code_blocks(text) ==
    LET python_blocks  == FindAllFrom(text, 1, TRUE)
        generic_blocks == FindAllFrom(text, 1, FALSE)
        blocks         == python_blocks \o generic_blocks
    IN  SelectSeq([k \in 1..Len(blocks) |-> Strip(blocks[k])], LAMBDA b : b # Empty)

(***************************************************************************)
(* Capturing Executor: Utilities/code_exec.py execute_code_capture_output. *)
(* exec(code, exec_env) runs a program; what a program does is given by    *)
(* its statements: writes to sys.stdout, writes to sys.stderr, and raise.  *)
(* A statement after a raise is never run.                                 *)
(***************************************************************************)
SepWidth == 80

S_Separator == NL \o [i \in 1..SepWidth |-> "="] \o NL
S_NoCodeProvided == <<"E","r","r","o","r",":"," ","N","o"," ","c","o","d","e"," ","p","r","o","v","i","d","e","d"," ","t","o"," ","e","x","e","c","u","t","e">>
S_NoOutput == <<"[","N","o"," ","o","u","t","p","u","t"," ","p","r","o","d","u","c","e","d","]">>
S_StderrLabel == <<"S","T","D","E","R","R",":","\n">>
S_ErrorPrefix == <<"E","r","r","o","r",":"," ">>
S_ColonSpace == <<":"," ">>
S_TracebackLabel == <<"\n","T","r","a","c","e","b","a","c","k",":","\n">>
S_TracebackHead == <<"T","r","a","c","e","b","a","c","k"," ","(","m","o","s","t"," ","r","e","c","e","n","t"," ","c","a","l","l"," ","l","a","s","t",")",":","\n">>
S_Frame == <<" "," ","F","i","l","e"," ","\"","<","s","t","r","i","n","g",">","\"",","," ","l","i","n","e"," ","1",","," ","i","n"," ","<","m","o","d","u","l","e",">","\n">>

\* the classes a program can raise; the last two derive from BaseException
\* only, the others from Exception
ExceptionKinds == {"ZeroDivisionError", "FileNotFoundError", "TypeError",
                   "ConfigWarningError", "SyntaxError"}
BaseOnlyKinds == {"SystemExit", "KeyboardInterrupt"}

\* type(e).__name__
KindName(kind) ==
    CASE kind = "ZeroDivisionError" -> <<"Z","e","r","o","D","i","v","i","s","i","o","n","E","r","r","o","r">>
      [] kind = "FileNotFoundError" -> <<"F","i","l","e","N","o","t","F","o","u","n","d","E","r","r","o","r">>
      [] kind = "TypeError" -> <<"T","y","p","e","E","r","r","o","r">>
      [] kind = "ConfigWarningError" -> <<"C","o","n","f","i","g","W","a","r","n","i","n","g","E","r","r","o","r">>
      [] kind = "SyntaxError" -> <<"S","y","n","t","a","x","E","r","r","o","r">>
      [] kind = "SystemExit" -> <<"S","y","s","t","e","m","E","x","i","t">>
      [] kind = "KeyboardInterrupt" -> <<"K","e","y","b","o","a","r","d","I","n","t","e","r","r","u","p","t">>

\* except Exception catches exactly the classes deriving from Exception
CaughtByExceptException(kind) == kind \in ExceptionKinds

StdoutWrite(t) == [op |-> "stdout", text |-> t, kind |-> "none"]
StderrWrite(t) == [op |-> "stderr", text |-> t, kind |-> "none"]
RaiseStmt(k, m) == [op |-> "raise", text |-> m, kind |-> k]

\* exec(code, exec_env) under the two redirections: the buffers when the
\* program stops, and the exception it stopped with, if any
RECURSIVE RunProgram(_, _, _)
RunProgram(stmts, out, err) ==
    IF stmts = << >>
    THEN [stdout |-> out, stderr |-> err, fault |-> "none", msg |-> Empty]
    ELSE LET s == Head(stmts)
         IN  CASE s.op = "stdout" -> RunProgram(Tail(stmts), out \o s.text, err)
               [] s.op = "stderr" -> RunProgram(Tail(stmts), out, err \o s.text)
               [] s.op = "raise"  ->
                    [stdout |-> out, stderr |-> err, fault |-> s.kind, msg |-> s.text]

\* traceback.format_exc()
FormatExc(kind, msg) ==
    S_TracebackHead \o S_Frame \o KindName(kind)
        \o (IF msg = Empty THEN Empty ELSE S_ColonSpace \o msg) \o NL

\* the try-branch result: code_exec.py lines 41-51, and the same with the
\* separator added whether or not stdout is empty
CombineOutputsAlwaysSeparated(stdout_content, stderr_content) ==
    LET o1 == stdout_content
        o2 == IF stderr_content # Empty
              THEN o1 \o S_Separator \o S_StderrLabel \o stderr_content
              ELSE o1
    IN  IF o2 # Empty THEN o2 ELSE S_NoOutput

CombineOutputs(stdout_content, stderr_content) ==
    LET o1 == stdout_content
        o2 == IF stderr_content # Empty
              THEN (IF o1 # Empty THEN o1 \o S_Separator ELSE o1)
                       \o S_StderrLabel \o stderr_content
              ELSE o1
    IN  IF o2 # Empty THEN o2 ELSE S_NoOutput

\* the except-branch result: code_exec.py lines 55-63
ErrorOutput(stdout_content, kind, msg) ==
    (IF stdout_content # Empty THEN stdout_content \o S_Separator ELSE Empty)
        \o S_ErrorPrefix \o KindName(kind) \o S_ColonSpace \o msg \o NL
        \o S_TracebackLabel
        \o FormatExc(kind, msg)

\* line 24 with the white-space test left out
NoCodeEmptyOnly(code_arg) == code_arg = Empty

\* line 24: not code or not code.strip()
NoCode(code_arg) == code_arg = Empty \/ Strip(code_arg) = Empty

\* execute_code_capture_output(code) when exec(code) behaves as program:
\* the text returned, or the exception that leaves the call, and whether
\* exec was reached
execute_code_capture_output(code_arg, program) ==
    IF NoCode(code_arg)
    THEN [raised |-> FALSE, value |-> S_NoCodeProvided, exc |-> "none",
          executed |-> FALSE]
    ELSE LET r == RunProgram(program, Empty, Empty)
         IN  IF r.fault = "none"
             THEN [raised |-> FALSE,
                   value  |-> CombineOutputs(r.stdout, r.stderr),
                   exc    |-> "none", executed |-> TRUE]
             ELSE IF CaughtByExceptException(r.fault)
             THEN [raised |-> FALSE,
                   value  |-> ErrorOutput(r.stdout, r.fault, r.msg),
                   exc    |-> "none", executed |-> TRUE]
             ELSE [raised |-> TRUE, value |-> Empty, exc |-> r.fault,
                   executed |-> TRUE]

(***************************************************************************)
(* Auto-fix of execute_with_retry: mainV3.py lines 80-91.                  *)
(***************************************************************************)
FILENAME == <<"/","h","o","m","e","/","d","e","n","t","1","s","t","/","S","P","P","p","r","o","j","e","c","t","/","P","r","o","j","e","c","t","V","4","/","C","o","r","e","_","P","i","p","e","l","i","n","e","_","F","i","l","e","s","/","t","r","a","i","n",".","t","x","t">>

S_Def == <<"d","e","f">>
S_DefSpace == <<"d","e","f"," ">>
S_LParen == << "(" >>
S_CallEmpty == <<"(",")","\n">>
S_CallOpen == <<"(","'">>
S_CallClose == <<"'",")","\n">>
path_words == << <<"f","i","l","e","n","a","m","e">>, <<"f","i","l","e">>, <<"p","a","t","h">> >>

\* the regex class \w
IsWord(c) ==
    c \in { "a", "b", "c", "d", "e", "f", "g", "h", "i", "j", "k", "l", "m", "n", "o", "p", "q", "r", "s", "t", "u", "v", "w", "x", "y", "z",
            "A", "B", "C", "D", "E", "F", "G", "H", "I", "J", "K", "L", "M", "N", "O", "P", "Q", "R", "S", "T", "U", "V", "W", "X", "Y", "Z",
            "0", "1", "2", "3", "4", "5", "6", "7", "8", "9", "_" }

WordRun(text, p) ==
    IF p > Len(text) THEN 0
    ELSE MinOf({q \in p..(Len(text) + 1) : q = Len(text) + 1 \/ ~(IsWord(text[q]))}) - p

\* number of characters other than ")" from position p on: the class [^)]*
NotCloseRun(text, p) ==
    IF p > Len(text) THEN 0
    ELSE MinOf({q \in p..(Len(text) + 1) : q = Len(text) + 1 \/ ~(text[q] # ")")}) - p

\* the match of def\s+(\w+)\s*\(([^)]*)\) that starts at position i
DefMatchAt(text, i) ==
    LET a  == i + Len(S_Def)               \* after "def"
        w1 == SpaceRun(text, a)            \* \s+
        b  == a + w1
        n  == WordRun(text, b)             \* (\w+)
        c  == b + n
        w2 == SpaceRun(text, c)            \* \s*
        d  == c + w2                       \* "("
        q  == NotCloseRun(text, d + 1)     \* ([^)]*)
        e  == d + 1 + q                    \* ")"
    IN  IF /\ LitAt(S_Def, text, i, FALSE)
           /\ w1 >= 1
           /\ n >= 1
           /\ d <= Len(text) /\ text[d] = "("
           /\ e <= Len(text) /\ text[e] = ")"
        THEN [found |-> TRUE, name |-> Slice(text, b, c - 1),
              params |-> Slice(text, d + 1, e - 1)]
        ELSE [found |-> FALSE, name |-> Empty, params |-> Empty]

\* re.search(r'def\s+(\w+)\s*\(([^)]*)\)', code)
DefSearch(text) ==
    LET starts == {i \in 1..Len(text) : DefMatchAt(text, i).found}
    IN  IF starts = {} THEN [found |-> FALSE, name |-> Empty, params |-> Empty]
        ELSE DefMatchAt(text, CHOOSE i \in starts : \A j \in starts : i <= j)

\* str.lower()
LowerText(s) == [i \in 1..Len(s) |-> Lower(s[i])]

\* lines 81-91: the code after the auto-fix, or the IndexError of
\* code.split(f"def {func_name}")[1] when the split yields one piece
AutoFix(code_arg) ==
    LET unchanged == [raised |-> FALSE, code |-> code_arg]
    IN  IF ~Contains(code_arg, S_DefSpace) THEN unchanged
        ELSE
          LET func_match == DefSearch(code_arg)
          IN  IF ~func_match.found THEN unchanged
              ELSE
                LET func_name == func_match.name
                    pieces == Split(code_arg, S_DefSpace \o func_name)
                IN  IF Len(pieces) < 2 THEN [raised |-> TRUE, code |-> code_arg]
                    ELSE IF Contains(pieces[2], func_name \o S_LParen) THEN unchanged
                    ELSE
                      LET params == Strip(func_match.params)
                          pathlike == \E k \in 1..Len(path_words) :
                                          Contains(LowerText(params), path_words[k])
                      IN  IF params # Empty /\ pathlike
                          THEN [raised |-> FALSE,
                                code |-> code_arg \o NL \o func_name \o S_CallOpen
                                            \o FILENAME \o S_CallClose]
                          ELSE [raised |-> FALSE,
                                code |-> code_arg \o NL \o func_name \o S_CallEmpty]

(***************************************************************************)
(* Retry Orchestrator: mainV3.py execute_with_retry, lines 24-147.         *)
(***************************************************************************)
Unbound == << "<unbound local>" >>
NoReturn == [kind |-> "none"]
NoAttempt == [index |-> 0, code |-> Empty, output |-> Empty, outcome |-> "none",
              request |-> Empty]

S_NoCodeGenerated == <<"N","o"," ","c","o","d","e"," ","g","e","n","e","r","a","t","e","d">>
S_NoCodePromptHead ==
    <<"P","r","e","v","i","o","u","s"," ","r","e","s","p","o","n","s","e"," ","d","i","d","n","'","t"," ","c","o","n","t","a","i","n"," ","v","a","l","i","d"," ","P","y","t","h","o","n"," ","c","o","d","e",".","\n","\n","P","l","e","a","s","e"," ","p","r","o","v","i","d","e"," ","O","N","L","Y"," ","a"," ","P","y","t","h","o","n"," ","c","o","d","e"," ","b","l","o","c","k"," ","w","i","t","h"," ","BQ","BQ","BQ","p","y","t","h","o","n"," ","m","a","r","k","e","r","s",".","\n","\n","O","r","i","g","i","n","a","l"," ","t","a","s","k",":","\n">>
S_RetryHead ==
    <<"T","h","e"," ","p","r","e","v","i","o","u","s"," ","c","o","d","e"," ","f","a","i","l","e","d"," ","w","i","t","h"," ","t","h","i","s"," ","e","r","r","o","r",":","\n","\n","E","R","R","O","R"," ","O","U","T","P","U","T",":","\n">>
S_RetryMid ==
    <<"\n","\n","P","R","E","V","I","O","U","S"," ","C","O","D","E",":","\n","BQ","BQ","BQ","p","y","t","h","o","n","\n">>
S_RetryTail ==
    <<"\n","BQ","BQ","BQ","\n","\n","A","N","A","L","Y","Z","E"," ","A","N","D"," ","F","I","X",":","\n","-"," ","W","h","a","t"," ","c","a","u","s","e","d"," ","t","h","e"," ","e","r","r","o","r","?","\n","-"," ","M","i","s","s","i","n","g"," ","i","m","p","o","r","t","s"," ","o","r"," ","w","r","o","n","g"," ","m","e","t","h","o","d","s","?","\n","-"," ","F","i","l","e"," ","p","a","t","h"," ","i","s","s","u","e","s","?","\n","-"," ","L","o","g","i","c"," ","e","r","r","o","r","s","?","\n","\n","G","e","n","e","r","a","t","e"," ","C","O","R","R","E","C","T","E","D"," ","P","y","t","h","o","n"," ","c","o","d","e"," ","t","h","a","t"," ","f","i","x","e","s"," ","t","h","e","s","e"," ","i","s","s","u","e","s",".","\n","R","e","t","u","r","n"," ","O","N","L","Y"," ","t","h","e"," ","P","y","t","h","o","n"," ","c","o","d","e"," ","b","l","o","c","k",".","\n">>

\* the prompt of lines 65-71, and the same built from the current prompt
NoCodePromptOfCurrent(initial) == S_NoCodePromptHead \o prompt \o NL
NoCodePrompt(initial) == S_NoCodePromptHead \o initial \o NL

\* the prompt of lines 125-143, and the same with the output left out
RetryPromptWithoutOutput(out, cd) == S_RetryHead \o S_RetryMid \o cd \o S_RetryTail
RetryPrompt(out, cd) == S_RetryHead \o out \o S_RetryMid \o cd \o S_RetryTail

\* the instructions a stage starts from
P_Inspect == <<"i","n","s","p","e","c","t"," ","t","r","a","i","n",".","t","x","t">>
P_Clean == <<"c","l","e","a","n"," ","t","r","a","i","n",".","t","x","t">>
InitialPrompts == {P_Inspect, P_Clean}

\* replies of the generation collaborator
R_PrintHi == <<"BQ","BQ","BQ","p","y","t","h","o","n","\n","p","r","i","n","t","(","'","h","i","'",")","\n","BQ","BQ","BQ">>
R_Prose == <<"I"," ","c","a","n","n","o","t"," ","h","e","l","p"," ","w","i","t","h"," ","t","h","a","t",".">>
R_DefClean == <<"BQ","BQ","BQ","p","y","t","h","o","n","\n","d","e","f"," ","c","l","e","a","n","(","p","a","t","h",")",":","\n"," "," "," "," ","p","a","s","s","\n","BQ","BQ","BQ">>
R_DefTwoSpaces == <<"BQ","BQ","BQ","\n","d","e","f"," "," ","f","(",")",":","\n"," "," "," "," ","p","a","s","s","\n","f","(",")","\n","BQ","BQ","BQ">>
R_Exit == <<"BQ","BQ","BQ","p","y","t","h","o","n","\n","i","m","p","o","r","t"," ","s","y","s","\n","s","y","s",".","e","x","i","t","(","1",")","\n","BQ","BQ","BQ">>
R_ReadFile == <<"H","e","r","e"," ","y","o","u"," ","g","o",":","\n","BQ","BQ","BQ","p","y","t","h","o","n","\n","p","r","i","n","t","(","o","p","e","n","(","'","t","r","a","i","n",".","t","x","t","'",")",".","r","e","a","d","(",")",")","\n","BQ","BQ","BQ","\n","D","o","n","e",".">>
R_Unclosed == <<"BQ","BQ","BQ","p","y","t","h","o","n","\n","p","r","i","n","t","(","'","h","i","'","\n","BQ","BQ","BQ">>
Replies == {R_PrintHi, R_Prose, R_DefClean, R_DefTwoSpaces, R_Exit, R_ReadFile,
            R_Unclosed}

S_PrintHi == <<"p","r","i","n","t","(","'","h","i","'",")">>
S_Hi == <<"h","i","\n">>
S_DivMsg == <<"d","i","v","i","s","i","o","n"," ","b","y"," ","z","e","r","o">>
S_ExitMsg == <<"1">>
S_NoFileMsg == <<"[","E","r","r","n","o"," ","2","]"," ","N","o"," ","s","u","c","h"," ","f","i","l","e"," ","o","r"," ","d","i","r","e","c","t","o","r","y",":"," ","'","t","r","a","i","n",".","t","x","t","'">>
S_ExitCode == <<"i","m","p","o","r","t"," ","s","y","s","\n","s","y","s",".","e","x","i","t","(","1",")">>
S_ReadCode == <<"p","r","i","n","t","(","o","p","e","n","(","'","t","r","a","i","n",".","t","x","t","'",")",".","r","e","a","d","(",")",")">>
S_UnclosedCode == <<"p","r","i","n","t","(","'","h","i","'">>
S_NeverClosedMsg == <<"'","(","'"," ","w","a","s"," ","n","e","v","e","r"," ","c","l","o","s","e","d"," ","(","<","s","t","r","i","n","g",">",","," ","l","i","n","e"," ","1",")">>
S_PrintedKeyError == <<"K","e","y","E","r","r","o","r",":"," ","'","i","d","'","\n">>
S_WarnLine == <<"F","u","t","u","r","e","W","a","r","n","i","n","g",":"," ","K","e","y","E","r","r","o","r"," ","l","o","o","k","u","p","s"," ","a","r","e"," ","d","e","p","r","e","c","a","t","e","d","\n">>

\* failures of client.chat, with str(e): ollama_client.py lines 100-108
CommErrors == {
    [kind |-> "ConnectionError",
     msg  |-> <<"C","a","n","n","o","t"," ","c","o","n","n","e","c","t"," ","t","o"," ","O","l","l","a","m","a","."," ","M","a","k","e"," ","s","u","r","e"," ","O","l","l","a","m","a"," ","i","s"," ","r","u","n","n","i","n","g",":","\n","R","u","n",":"," ","o","l","l","a","m","a"," ","s","e","r","v","e">>],
    [kind |-> "TimeoutError",
     msg  |-> <<"O","l","l","a","m","a"," ","r","e","q","u","e","s","t"," ","t","i","m","e","d"," ","o","u","t","."," ","T","h","e"," ","m","o","d","e","l"," ","m","i","g","h","t"," ","b","e"," ","t","o","o"," ","s","l","o","w"," ","o","r"," ","s","t","u","c","k",".">>]
}

\* what print(open('train.txt').read()) does depends on the file: it prints
\* the content (which may read like an error or a warning), a library warns
\* on stderr first, or open raises
FilePrograms == {
    << StdoutWrite(S_Hi) >>,
    << StdoutWrite(S_PrintedKeyError) >>,
    << StderrWrite(S_WarnLine), StdoutWrite(S_Hi) >>,
    << RaiseStmt("FileNotFoundError", S_NoFileMsg) >>
}

\* what exec(code, exec_env) can do for the code of an attempt; the remaining
\* code is the definition of clean with the call the auto-fix appended, which
\* writes nothing
Runs(code_arg) ==
    CASE code_arg = S_PrintHi -> { << StdoutWrite(S_Hi) >> }
      [] code_arg = S_ExitCode -> { << RaiseStmt("SystemExit", S_ExitMsg) >> }
      [] code_arg = S_ReadCode -> FilePrograms
      [] code_arg = S_UnclosedCode -> { << RaiseStmt("SyntaxError", S_NeverClosedMsg) >> }
      [] OTHER -> { << >> }

Return(succeeded, cd, out) ==
    [kind |-> "return", succeeded |-> succeeded, code |-> cd, output |-> out]
Raise(exc) == [kind |-> "raise", exc |-> exc]

\* range(max_retries) has a next element after i
RangeHasNextOffByOne(i, n) == i + 1 <= n
RangeHasNext(i, n) == i + 1 < n

\* has_error at line 117, after the warning filter of lines 110-115
HasErrorWithoutReset(outcome) == outcome # "Success"
HasError(outcome) == outcome = "Failure"

\* attempt < max_retries - 1: attempts remain
AttemptsRemainOffByOne == attempt < max_retries
AttemptsRemain == attempt < max_retries - 1

\* line 53
CommFailureReturnStale(e) == Return(FALSE, code, output)
CommFailureReturn(e) == Return(FALSE, Empty, e.msg)
\* line 74
NoCodeReturn == Return(FALSE, Empty, S_NoCodeGenerated)
\* line 119
SuccessReturn == Return(TRUE, code, output)
\* line 147: reading a local that was never assigned raises UnboundLocalError
ExhaustedReturnSucceeded == Return(TRUE, code, output)
ExhaustedReturn ==
    IF code = Unbound \/ output = Unbound THEN Raise("UnboundLocalError")
    ELSE Return(FALSE, code, output)

Idle == [fn |-> "none"]

Init ==
    /\ pc = "for"
    /\ max_retries \in 0..MaxRetries
    /\ attempt = -1
    /\ prompt \in InitialPrompts
    /\ initial_prompt = prompt
    /\ result = Unbound
    /\ code = Unbound
    /\ output = Unbound
    /\ ret = NoReturn
    /\ requests = 0
    /\ faults = 0
    /\ last = NoAttempt
    /\ probe = Idle

\* line 39: for attempt in range(max_retries)
ForStep ==
    /\ pc = "for"
    /\ IF RangeHasNext(attempt, max_retries)
       THEN /\ attempt' = attempt + 1
            /\ pc' = "chat"
       ELSE /\ pc' = "after_for"
            /\ UNCHANGED attempt
    /\ UNCHANGED << max_retries, initial_prompt, prompt, result, code, output,
                    ret, requests, faults, last, probe >>

\* lines 45-46: client.chat(prompt) returns a reply
ChatReplies ==
    /\ pc = "chat"
    /\ \E r \in Replies : result' = r
    /\ requests' = requests + 1
    /\ last' = [index |-> attempt + 1, code |-> Empty, output |-> Empty,
                outcome |-> "pending", request |-> prompt]
    /\ pc' = "extract"
    /\ UNCHANGED << max_retries, initial_prompt, attempt, prompt, code, output,
                    ret, faults, probe >>

\* lines 47-53: client.chat(prompt) raises
ChatFails ==
    /\ pc = "chat"
    /\ requests' = requests + 1
    /\ \E e \in CommErrors :
         /\ last' = [index |-> attempt + 1, code |-> Empty, output |-> e.msg,
                     outcome |-> "CommunicationError", request |-> prompt]
         /\ IF AttemptsRemain
            THEN pc' = "for" /\ UNCHANGED ret
            ELSE pc' = "done" /\ ret' = CommFailureReturn(e)
    /\ UNCHANGED << max_retries, initial_prompt, attempt, prompt, result, code,
                    output, faults, probe >>

\* line 62: if not code, and the same with the test never taken
NotCodeNever(c) == FALSE
NotCode(c) == c = Empty

\* lines 61-74: extract the code; no code ends the attempt
Extract ==
    /\ pc = "extract"
    /\ code' = extract_python_code(result)
    /\ IF NotCode(code')
       THEN /\ last' = [last EXCEPT !.outcome = "NoCodeFound",
                                    !.output = S_NoCodeGenerated]
            /\ IF AttemptsRemain
               THEN /\ prompt' = NoCodePrompt(initial_prompt)
                    /\ pc' = "for"
                    /\ UNCHANGED ret
               ELSE /\ ret' = NoCodeReturn
                    /\ pc' = "done"
                    /\ UNCHANGED prompt
       ELSE /\ pc' = "autofix"
            /\ UNCHANGED << prompt, ret, last >>
    /\ UNCHANGED << max_retries, initial_prompt, attempt, result, output,
                    requests, faults, probe >>

\* lines 80-91: the auto-fix
Repair ==
    /\ pc = "autofix"
    /\ LET fixed == AutoFix(code)
       IN  IF fixed.raised
           THEN /\ ret' = Raise("IndexError")
                /\ pc' = "done"
                /\ UNCHANGED code
           ELSE /\ code' = fixed.code
                /\ pc' = "execute"
                /\ UNCHANGED ret
    /\ UNCHANGED << max_retries, initial_prompt, attempt, prompt, result, output,
                    requests, faults, last, probe >>

\* line 95: output = execute_code_capture_output(code)
Execute ==
    /\ pc = "execute"
    /\ \E program \in Runs(code) :
         LET r == execute_code_capture_output(code, program)
             faulted == RunProgram(program, Empty, Empty).fault # "none"
         IN  /\ faults' = IF faulted THEN faults + 1 ELSE faults
             /\ IF r.raised
                THEN /\ ret' = Raise(r.exc)
                     /\ pc' = "done"
                     /\ last' = [last EXCEPT !.code = code, !.outcome = "ExecutorRaised"]
                     /\ UNCHANGED output
                ELSE /\ output' = r.value
                     /\ pc' = "classify"
                     /\ last' = [last EXCEPT !.code = code, !.output = r.value]
                     /\ UNCHANGED ret
    /\ UNCHANGED << max_retries, initial_prompt, attempt, prompt, result, code,
                    requests, probe >>

\* lines 100-144: classify the output; return on success, else prepare the
\* corrective prompt when attempts remain
Check ==
    /\ pc = "classify"
    /\ LET outcome == Classify(output)
       IN  /\ last' = [last EXCEPT !.outcome = outcome]
           /\ IF ~HasError(outcome)
              THEN /\ ret' = SuccessReturn
                   /\ pc' = "done"
                   /\ UNCHANGED prompt
              ELSE /\ prompt' = IF AttemptsRemain THEN RetryPrompt(output, code)
                                ELSE prompt
                   /\ pc' = "for"
                   /\ UNCHANGED ret
    /\ UNCHANGED << max_retries, initial_prompt, attempt, result, code, output,
                    requests, faults, probe >>

\* lines 146-147: the loop ran out
AfterFor ==
    /\ pc = "after_for"
    /\ ret' = ExhaustedReturn
    /\ pc' = "done"
    /\ UNCHANGED << max_retries, initial_prompt, attempt, prompt, result, code,
                    output, requests, faults, last, probe >>

Next ==
    \/ ForStep
    \/ ChatReplies
    \/ ChatFails
    \/ Extract
    \/ Repair
    \/ Execute
    \/ Check
    \/ AfterFor

Spec == Init /\ [][Next]_vars

\* the run when every call of client.chat and of the executor comes back: the
\* interpreter runs one statement after the other, so control does not stay
\* for ever at a statement of a call that has not ended (every control point
\* but "done" has a step of Next: the guards above test pc alone)
Advance ==
    /\ pc # "done"
    /\ pc' \in {"for", "chat", "extract", "autofix", "execute", "classify",
                "after_for", "done"}

SpecFair == Spec /\ WF_pc(Advance)

(***************************************************************************)
(* The pure functions on their own: each specification below draws an      *)
(* input from a bounded set and applies one function to it.                *)
(***************************************************************************)
IdleLoop ==
    /\ pc = "idle"
    /\ max_retries = 0
    /\ attempt = -1
    /\ prompt = Empty
    /\ initial_prompt = Empty
    /\ result = Unbound
    /\ code = Unbound
    /\ output = Unbound
    /\ ret = NoReturn
    /\ requests = 0
    /\ faults = 0
    /\ last = NoAttempt

\* ---- the classifier and execute_code_safe's flag on captured outputs ----
L_Hi == <<"h","i">>
L_Future == <<"F","u","t","u","r","e","W","a","r","n","i","n","g",":"," ","x"," ","i","s"," ","d","e","p","r","e","c","a","t","e","d">>
L_Traceback == <<"T","r","a","c","e","b","a","c","k"," ","(","m","o","s","t"," ","r","e","c","e","n","t"," ","c","a","l","l"," ","l","a","s","t",")",":">>
L_ZeroDiv == <<"Z","e","r","o","D","i","v","i","s","i","o","n","E","r","r","o","r",":"," ","d","i","v","i","s","i","o","n"," ","b","y"," ","z","e","r","o">>
L_KeyError == <<"K","e","y","E","r","r","o","r">>
L_WarnValue == <<"U","s","e","r","W","a","r","n","i","n","g",":"," ","V","a","l","u","e","E","r","r","o","r"," ","i","g","n","o","r","e","d">>
L_WarnError == <<"D","e","p","r","e","c","a","t","i","o","n","W","a","r","n","i","n","g",":"," ","E","r","r","o","r",":"," ","o","l","d">>
ClassifyLines == {Empty, L_Hi, L_Future, L_Traceback, L_ZeroDiv, L_KeyError,
                  L_WarnValue, L_WarnError}

ClassifyInputs == { Join(ls, NL) : ls \in SeqsUpTo(ClassifyLines, MaxLines) }

InitClassify ==
    /\ IdleLoop
    /\ probe \in { [fn |-> "classify", arg |-> t, outcome |-> "pending",
                    safe |-> "pending"] : t \in ClassifyInputs }

\* mainV3.py lines 100-115 applied to the text
RunClassifier ==
    /\ probe.fn = "classify"
    /\ probe.outcome = "pending"
    /\ probe' = [probe EXCEPT !.outcome = Classify(probe.arg)]
    /\ UNCHANGED loopVars

\* code_exec.py lines 90-96 applied to the text
RunSafeCheck ==
    /\ probe.fn = "classify"
    /\ probe.safe = "pending"
    /\ probe' = [probe EXCEPT !.safe = IF SafeSuccess(probe.arg) THEN "true"
                                       ELSE "false"]
    /\ UNCHANGED loopVars

NextClassify == RunClassifier \/ RunSafeCheck

SpecClassify == InitClassify /\ [][NextClassify]_vars

\* ---- the extractor on reply texts ----
O_TagUpper == <<"BQ","BQ","BQ","P","y","t","h","o","n">>
F_Code == <<"x","=","1">>
F_Import == <<"i","m","p","o","r","t"," ","o","s">>
ExtractFrags == {S_Fence, S_TagOpen, O_TagUpper, NL, F_Code, S_Single, S_Double,
                 F_Import}

ExtractInputs == { Concat(fs) : fs \in SeqsUpTo(ExtractFrags, MaxFrags) }

InitExtract ==
    /\ IdleLoop
    /\ probe \in { [fn |-> "extract", arg |-> t, done |-> FALSE, res |-> Empty]
                   : t \in ExtractInputs }

RunExtract ==
    /\ probe.fn = "extract"
    /\ ~probe.done
    /\ probe' = [probe EXCEPT !.done = TRUE, !.res = extract_python_code(probe.arg)]
    /\ UNCHANGED loopVars

NextExtract == RunExtract

SpecExtract == InitExtract /\ [][NextExtract]_vars

\* ---- extract_code_blocks on reply texts: a tagged block, an untagged
\* block, a word of prose, a line break, a fence and a tagged fence ----
BlockFrags == {
    <<"BQ","BQ","BQ","p","y","t","h","o","n","\n","x","=","1","\n","BQ","BQ","BQ">>,
    <<"BQ","BQ","BQ","\n","y","=","2","\n","BQ","BQ","BQ">>,
    <<"t","h","e","n">>,
    NL, S_Fence, S_TagOpen }

InitBlocks ==
    /\ IdleLoop
    /\ probe \in { [fn |-> "blocks", arg |-> Concat(fs), done |-> FALSE, res |-> << >>]
                   : fs \in SeqsUpTo(BlockFrags, MaxFrags) }

RunExtractBlocks ==
    /\ probe.fn = "blocks"
    /\ ~probe.done
    /\ probe' = [probe EXCEPT !.done = TRUE, !.res = extract_code_blocks(probe.arg)]
    /\ UNCHANGED loopVars

SpecBlocks == InitBlocks /\ [][RunExtractBlocks]_vars

\* ---- the auto-fix on extracted codes: a routine f, a call of f, f defined
\* with two blanks after def, a class with a method g, a routine load with a
\* parameter path, an if statement, and a routine run whose parameter n is
\* annotated Path ----
RepairFrags == {
    <<"d","e","f"," ","f","(",")",":","\n"," "," "," "," ","p","a","s","s","\n">>,
    <<"f","(",")","\n">>,
    <<"d","e","f"," "," ","f","(",")",":","\n"," "," "," "," ","p","a","s","s","\n">>,
    <<"c","l","a","s","s"," ","A",":","\n"," "," "," "," ","d","e","f"," ","g","(","s","e","l","f",")",":","\n"," "," "," "," "," "," "," "," ","p","a","s","s","\n">>,
    <<"d","e","f"," ","l","o","a","d","(","p","a","t","h",")",":","\n"," "," "," "," ","p","a","s","s","\n">>,
    <<"i","f","(","x",")",":","\n"," "," "," "," ","p","a","s","s","\n">>,
    <<"d","e","f"," ","r","u","n","(","n",":"," ","P","a","t","h",")",":","\n"," "," "," "," ","p","a","s","s","\n">> }

InitRepair ==
    /\ IdleLoop
    /\ probe \in { [fn |-> "repair", arg |-> Concat(fs), done |-> FALSE,
                    res |-> [raised |-> FALSE, code |-> Empty]]
                   : fs \in SeqsUpTo(RepairFrags, MaxFrags) \ { << >> } }

\* mainV3.py lines 80-91 applied to the code
RunRepair ==
    /\ probe.fn = "repair"
    /\ ~probe.done
    /\ probe' = [probe EXCEPT !.done = TRUE, !.res = AutoFix(probe.arg)]
    /\ UNCHANGED loopVars

SpecRepair == InitRepair /\ [][RunRepair]_vars

\* ---- the executor on programs ----
S_Blank == <<" "," "," ">>
S_SomeCode == <<"m","a","i","n","(",")">>
ExecStmts == {
    StdoutWrite(S_Hi),
    StdoutWrite(S_PrintedKeyError),
    StderrWrite(S_WarnLine),
    RaiseStmt("ZeroDivisionError", S_DivMsg),
    RaiseStmt("ConfigWarningError", Empty),
    RaiseStmt("SystemExit", S_ExitMsg),
    RaiseStmt("KeyboardInterrupt", Empty)
}

ExecInputs ==
    { [code |-> c, program |-> << >>] : c \in {Empty, S_Blank, <<"\n", "\t", " ">>} }
      \cup { [code |-> S_SomeCode, program |-> p] : p \in SeqsUpTo(ExecStmts, MaxStmts) }

InitExec ==
    /\ IdleLoop
    /\ probe \in { [fn |-> "exec", arg |-> a, done |-> FALSE,
                    res |-> [raised |-> FALSE, value |-> Empty, exc |-> "none",
                             executed |-> FALSE]]
                   : a \in ExecInputs }

RunExec ==
    /\ probe.fn = "exec"
    /\ ~probe.done
    /\ probe' = [probe EXCEPT !.done = TRUE,
                     !.res = execute_code_capture_output(probe.arg.code,
                                                         probe.arg.program)]
    /\ UNCHANGED loopVars

NextExec == RunExec

SpecExec == InitExec /\ [][NextExec]_vars

\* ---- the namespace of exec over successive calls of the executor ----
\* exec(code, exec_env) resolves a name in exec_env, then in the builtins it
\* adds to exec_env; a program binds names (assignment, import, def) and
\* reads names; reading a name found in neither raises NameError
Builtins == {"print"}

\* names bound where the executor is called from: its parameter and locals
\* (code, exec_env) and a global of the pipeline module (FILENAME)
CallerNames == {"code", "exec_env", "FILENAME"}

NameStmts ==
    { [op |-> "bind", name |-> n] : n \in {"x", "df"} }
      \cup { [op |-> "read", name |-> n]
                : n \in {"x", "df"} \cup CallerNames \cup Builtins }

RECURSIVE ExecNames(_, _, _)
ExecNames(stmts, env, read) ==
    IF stmts = << >> THEN [env |-> env, fault |-> "none", read |-> read]
    ELSE LET st == Head(stmts)
         IN  IF st.op = "bind"
             THEN ExecNames(Tail(stmts), env \cup {st.name}, read)
             ELSE IF st.name \in env \cup Builtins
             THEN ExecNames(Tail(stmts), env, read \cup {st.name})
             ELSE [env |-> env, fault |-> "NameError", read |-> read]

\* line 32: exec_env = {}, and the same with one dictionary kept from call
\* to call
SharedEnv(previous) == previous
NewEnv(previous) == {}

\* probe holds the number of calls made, the names the programs of earlier
\* calls bound, what the dictionary of the last call held when the call
\* ended, and the last call: its program, the names it read and its fault
InitNames ==
    /\ IdleLoop
    /\ probe = [fn |-> "names", calls |-> 0, earlier |-> {}, env |-> {},
                last |-> [program |-> << >>, before |-> {}, read |-> {},
                          fault |-> "none"]]

\* code_exec.py lines 27-38: one call of the executor with non-blank code
CallCapture ==
    /\ probe.fn = "names"
    /\ probe.calls < MaxCalls
    /\ \E program \in SeqsUpTo(NameStmts, MaxStmts) :
         LET exec_env == NewEnv(probe.env)
             r == ExecNames(program, exec_env, {})
         IN  probe' = [probe EXCEPT
                          !.calls = probe.calls + 1,
                          !.earlier = probe.earlier \cup probe.env,
                          !.env = r.env,
                          !.last = [program |-> program, before |-> probe.earlier \cup probe.env,
                                    read |-> r.read, fault |-> r.fault]]
    /\ UNCHANGED loopVars

SpecNames == InitNames /\ [][CallCapture]_vars

\* ---- OllamaClient.chat over successive calls: ollama_client.py ----
\* probe holds conversation_history, what it was before the last call, the
\* number of calls made and how the last call ended
InitChat ==
    /\ IdleLoop
    /\ \E h \in { << >>, << [role |-> "system", content |-> <<"s","y","s">>] >> } :
         probe = [fn |-> "chat", conversation_history |-> h, before |-> h,
                  calls |-> 0, last |-> "none"]

\* lines 62-65 and 81-98: the user message is appended, the request is
\* answered and the reply is appended and returned
ChatReturns ==
    /\ probe.fn = "chat"
    /\ probe.calls < MaxCalls
    /\ \E user_message \in InitialPrompts : \E assistant_message \in {R_PrintHi, R_Prose} :
         probe' = [probe EXCEPT
                      !.before = probe.conversation_history,
                      !.conversation_history =
                          probe.conversation_history
                              \o << [role |-> "user", content |-> user_message],
                                    [role |-> "assistant", content |-> assistant_message] >>,
                      !.calls = probe.calls + 1,
                      !.last = "returned"]
    /\ UNCHANGED loopVars

\* lines 62-65 and 100-116: the user message is appended, the request fails
\* (no connection, timeout, HTTP error) and the handler raises
ChatRaises ==
    /\ probe.fn = "chat"
    /\ probe.calls < MaxCalls
    /\ \E user_message \in InitialPrompts :
       \E exc \in {"ConnectionError", "TimeoutError", "ValueError", "RuntimeError"} :
         probe' = [probe EXCEPT
                      !.before = probe.conversation_history,
                      !.conversation_history =
                          Append(probe.conversation_history,
                                 [role |-> "user", content |-> user_message]),
                      !.calls = probe.calls + 1,
                      !.last = exc]
    /\ UNCHANGED loopVars

SpecChat == InitChat /\ [][ChatReturns \/ ChatRaises]_vars

(***************************************************************************)
(* The pipeline: mainV3.py main from line 249 on, where session_data is    *)
(* created and the inspection stage starts.  probe holds main's own state: *)
(* its control point, the stage it is in, session_data['stages'], the      *)
(* settings max_retries and log_sessions of the configuration, and the     *)
(* number of times the session file was written.  A stage calls            *)
(* execute_with_retry, which runs as the loop above.                       *)
(***************************************************************************)
\* model_handler.py lines 109-120: the file is written unless log_sessions
\* is off
save_session(m) == IF m.log_sessions THEN m.saves + 1 ELSE m.saves

InitMain ==
    /\ IdleLoop
    /\ probe \in { [fn |-> "main", pc |-> "call", stage |-> "inspection",
                    stages |-> << >>, saves |-> 0,
                    max_retries |-> n, log_sessions |-> b]
                   : n \in 0..MaxRetries, b \in BOOLEAN }

\* lines 262-271 and 293-301: the stage calls execute_with_retry
CallStage ==
    /\ probe.fn = "main"
    /\ probe.pc = "call"
    /\ probe' = [probe EXCEPT !.pc = "wait"]
    /\ pc' = "for"
    /\ max_retries' = probe.max_retries
    /\ attempt' = -1
    /\ prompt' = (IF probe.stage = "inspection" THEN P_Inspect ELSE P_Clean)
    /\ initial_prompt' = prompt'
    /\ result' = Unbound
    /\ code' = Unbound
    /\ output' = Unbound
    /\ ret' = NoReturn
    /\ requests' = 0
    /\ faults' = 0
    /\ last' = NoAttempt

\* lines 281 and 311: if not inspection_success / if not cleaning_success,
\* and the same with the test never taken
StageNeverFailed(r) == FALSE
StageFailed(r) == ~r.succeeded

\* lines 266-285 and 296-315: the call is over; a fault it raised leaves
\* main, a result is stored in session_data['stages'] and a failed stage
\* saves the session and returns
ReturnStage ==
    /\ probe.fn = "main"
    /\ probe.pc = "wait"
    /\ pc = "done"
    /\ IF ret.kind = "raise"
       THEN probe' = [probe EXCEPT !.pc = "raised"]
       ELSE LET stages == Append(probe.stages,
                                 [stage |-> probe.stage, success |-> ret.succeeded])
            IN  IF StageFailed(ret)
                THEN probe' = [probe EXCEPT !.stages = stages,
                                            !.saves = save_session(probe),
                                            !.pc = "returned"]
                ELSE IF probe.stage = "inspection"
                THEN probe' = [probe EXCEPT !.stages = stages,
                                            !.stage = "cleaning", !.pc = "call"]
                ELSE probe' = [probe EXCEPT !.stages = stages,
                                            !.stage = "verification", !.pc = "verify"]
    /\ pc' = "idle"
    /\ max_retries' = 0
    /\ attempt' = -1
    /\ prompt' = Empty
    /\ initial_prompt' = Empty
    /\ result' = Unbound
    /\ code' = Unbound
    /\ output' = Unbound
    /\ ret' = NoReturn
    /\ requests' = 0
    /\ faults' = 0
    /\ last' = NoAttempt

\* lines 320-396: verification, whether or not the cleaned file exists, then
\* the session summary, which saves the session
VerifyAndSummarize ==
    /\ probe.fn = "main"
    /\ probe.pc = "verify"
    /\ \E exists \in BOOLEAN :
         probe' = [probe EXCEPT !.stages = Append(probe.stages,
                                      [stage |-> "verification", success |-> exists]),
                                !.saves = save_session(probe),
                                !.pc = "returned"]
    /\ UNCHANGED loopVars

SpecMain ==
    InitMain /\ [][Next \/ CallStage \/ ReturnStage \/ VerifyAndSummarize]_vars

(***************************************************************************)
(* Properties of execute_with_retry, checked under Spec.                   *)
(***************************************************************************)
Succeeding == {"Success", "WarningOnlySuccess"}

\* C1: for max_retries >= 1, one run sends at most max_retries requests to
\* the generation collaborator.
C1_AtMostMaxRetriesRequests ==
    max_retries >= 1 => requests <= max_retries

C1_Witness ==
    /\ pc = "done"
    /\ max_retries >= 2
    /\ requests = max_retries

\* C2: execute_with_retry returns a (succeeded, code, output) result and
\* never raises a fault to its caller.
C2_NeverRaises ==
    ret.kind # "raise"

\* C3: the returned succeeded flag is true exactly when the last attempt made
\* was classified Success or WarningOnlySuccess.
C3_SucceededIffLastAttemptSucceeded ==
    ret.kind = "return" =>
        (ret.succeeded <=> last.outcome \in Succeeding)

C3_Witness ==
    /\ ret.kind = "return"
    /\ ret.succeeded
    /\ last.outcome = "WarningOnlySuccess"
    /\ requests >= 2

\* C4: when the loop ends, by success or by exhaustion, the returned code and
\* output are those of the last attempt made: the code it executed (empty if
\* it produced none) and its captured output or error text.
C4_ResultMirrorsLastAttempt ==
    ret.kind = "return" =>
        /\ last.index = requests
        /\ ret.code = last.code
        /\ ret.output = last.output

\* an exhausted run whose last attempt produced no code although an earlier
\* attempt had executed some
C4_Witness ==
    /\ ret.kind = "return"
    /\ ~ret.succeeded
    /\ last.outcome \in {"CommunicationError", "NoCodeFound"}
    /\ code # Unbound /\ code # Empty
    /\ ret.code = Empty

\* C6: an attempt classified Success or WarningOnlySuccess ends the loop: the
\* call has returned succeeded = true with that attempt's code and output, no
\* request was sent after that attempt's and no step remains; a first reply
\* holding the fenced block print('hi') succeeds on attempt 1 with output hi.
C6_SuccessEndsLoop ==
    /\ last.outcome \in Succeeding =>
          /\ pc = "done"
          /\ ret = Return(TRUE, last.code, last.output)
          /\ requests = last.index
          /\ ~ENABLED Next
    /\ (pc = "done" /\ requests = 1 /\ result = R_PrintHi) =>
          ret = Return(TRUE, S_PrintHi, S_Hi)

C6_Witness ==
    /\ last.outcome \in Succeeding
    /\ requests < max_retries
    /\ ret.kind = "return"

\* C7: with max_retries = N >= 1 and N attempts that each ended in a runtime
\* fault, the loop ends with succeeded = false after exactly N attempts; and
\* succeeded = false is never returned after fewer than N attempts.
C7_FaultsExhaust ==
    /\ (pc = "done" /\ max_retries >= 1 /\ faults = max_retries) =>
          /\ ret.kind = "return"
          /\ ~ret.succeeded
          /\ requests = max_retries
    /\ (ret.kind = "return" /\ ~ret.succeeded) => requests = max_retries

\* C15: when client.chat fails and attempts remain, neither the extractor nor
\* the executor runs in that attempt and the next attempt sends exactly the
\* request text of the failed one; when no attempt remains the loop ends
\* with succeeded = false.
C15_CommFailureRetriesSameRequest ==
    [][ /\ (requests' = requests + 1 /\ last'.outcome = "CommunicationError") =>
              /\ UNCHANGED << prompt, code, output, faults >>
              /\ IF last'.index < max_retries
                 THEN pc' = "for" /\ ret' = NoReturn
                 ELSE pc' = "done" /\ ret'.kind = "return" /\ ~ret'.succeeded
        /\ (last.outcome = "CommunicationError" /\ requests' = requests + 1) =>
              last'.request = last.request
      ]_vars

\* a failed request that carried a corrective prompt is about to be sent again
C15_Witness ==
    /\ last.outcome = "CommunicationError"
    /\ last.index < max_retries
    /\ pc = "chat"
    /\ prompt = last.request
    /\ prompt # initial_prompt

\* C16: when the extractor returns the empty string and attempts remain, the
\* executor is not run in that attempt and the next request text is a
\* corrective prompt that contains the initial prompt, whatever the current
\* request text was, and demands a fenced code block; when no attempt remains
\* the loop ends with succeeded = false.
C16_NoCodeCorrectivePrompt ==
    [][ /\ (last.outcome = "pending" /\ last'.outcome = "NoCodeFound") =>
              /\ UNCHANGED << output, faults >>
              /\ IF last'.index < max_retries
                 THEN /\ pc' = "for" /\ ret' = NoReturn
                      /\ Contains(prompt', initial_prompt)
                      /\ Contains(prompt', S_TagOpen)
                 ELSE pc' = "done" /\ ret'.kind = "return" /\ ~ret'.succeeded
        /\ (last.outcome = "NoCodeFound" /\ requests' = requests + 1) =>
              /\ last'.request = prompt
              /\ Contains(last'.request, initial_prompt)
              /\ Contains(last'.request, S_TagOpen)
      ]_vars

\* the reply to a request that carried the failing code and output of an
\* earlier attempt held no code, and the corrective prompt is about to be sent
C16_Witness ==
    /\ last.outcome = "NoCodeFound"
    /\ pc = "chat"
    /\ Contains(last.request, S_RetryHead)
    /\ ~Contains(last.request, initial_prompt)
    /\ Contains(prompt, initial_prompt)

\* C17: when an attempt is classified Failure and attempts remain, the next
\* request text embeds verbatim the code executed in that same attempt and
\* the full captured output of that same attempt; when no attempt remains the
\* loop returns succeeded = false with that attempt's code and output.
C17_FailureCorrectivePrompt ==
    [][ /\ (last'.outcome = "Failure" /\ last'.index < max_retries) =>
              /\ pc' \in {"for", "chat"}
              /\ ret' = NoReturn
              /\ Contains(prompt', S_RetryHead \o last'.output \o S_RetryMid)
              /\ Contains(prompt', S_RetryMid \o last'.code \o S_RetryTail)
        /\ (last.outcome = "Failure" /\ requests' = requests + 1) =>
              last'.request = prompt
        /\ (last'.outcome = "Failure" /\ pc' = "done") =>
              ret' = Return(FALSE, last'.code, last'.output)
      ]_vars

\* a second failing attempt whose output differs from the output the request
\* of that attempt carried, with its corrective prompt about to be sent
C17_Witness ==
    /\ last.outcome = "Failure"
    /\ last.index >= 2
    /\ pc = "chat"
    /\ Contains(last.request, S_RetryHead)
    /\ ~Contains(last.request, last.output)
    /\ Contains(prompt, last.output)

\* C18: for max_retries >= 1, when every collaborator call and every code
\* execution returns, the loop eventually ends Succeeded or Exhausted with a
\* result, and the result, once produced, is the only one.  (An execution
\* that leaves the executor as a fault has not returned.)
C18_EventuallyOneResult ==
    /\ (max_retries >= 1) =>
          <>(ret.kind = "return" \/ last.outcome = "ExecutorRaised")
    /\ [][ret.kind = "return" => ret' = ret]_vars

\* C19: the parse-only validity check is applied before execution: in no
\* attempt is the executor given code for which is_valid_python_code reports
\* false.
C19_OnlyValidCodeExecuted ==
    pc = "execute" => is_valid_python_code(code)

\* C29: the retry loop never invokes the executor with empty or
\* white-space-only code: in every attempt that reaches execution the
\* extracted (and possibly repaired) code is non-empty, and the "no code
\* provided" message is never the output of an attempt.
C29_ExecutorNeverGivenBlankCode ==
    /\ pc = "execute" => (code # Unbound /\ Strip(code) # Empty)
    /\ output # S_NoCodeProvided
    /\ last.output # S_NoCodeProvided
    /\ ret.kind = "return" => ret.output # S_NoCodeProvided

\* after an attempt whose reply held no code, a repaired code is about to
\* be executed
C29_Witness ==
    /\ pc = "execute"
    /\ last.index >= 2
    /\ Contains(last.request, S_NoCodePromptHead)
    /\ Contains(code, S_CallOpen \o FILENAME \o S_CallClose)

(***************************************************************************)
(* Properties of the executor, checked under SpecExec.                     *)
(***************************************************************************)
\* C5: execute_code_capture_output never raises: whatever the program raises,
\* the call returns a string.
C5_ExecutorNeverRaises ==
    (probe.fn = "exec" /\ probe.done) => ~probe.res.raised

\* C13: called with an empty or white-space-only string, the executor returns
\* the fixed "no code provided" message, exec is not reached and no other
\* state changes.
C13_BlankCodeNotExecuted ==
    (probe.fn = "exec" /\ probe.done /\ Strip(probe.arg.code) = Empty) =>
        /\ probe.res = [raised |-> FALSE, value |-> S_NoCodeProvided,
                        exc |-> "none", executed |-> FALSE]
        /\ IdleLoop

C13_Witness ==
    /\ probe.fn = "exec"
    /\ probe.done
    /\ probe.arg.code = S_Blank
    /\ probe.res.value = S_NoCodeProvided

(***************************************************************************)
(* Properties of the classifier, checked under SpecClassify.               *)
(***************************************************************************)
\* the line of text t that holds position i
LineAround(t, i) ==
    LET starts == {s \in 1..i : s = 1 \/ t[s - 1] = "\n"}
        ends   == {e \in i..Len(t) : e = Len(t) \/ t[e + 1] = "\n"}
        s0 == CHOOSE s \in starts : \A x \in starts : s >= x
        e0 == CHOOSE e \in ends : \A x \in ends : e <= x
    IN  SubSeq(t, s0, e0)

\* positions of t where a failure indicator begins
IndicatorHits(t) ==
    {i \in 1..Len(t) : \E k \in 1..Len(error_indicators) :
                           /\ i + Len(error_indicators[k]) - 1 <= Len(t)
                           /\ SubSeq(t, i, i + Len(error_indicators[k]) - 1)
                                 = error_indicators[k]}

\* the classification as the rule states it
RuleOutcome(t) ==
    IF IndicatorHits(t) = {} THEN "Success"
    ELSE IF \A i \in IndicatorHits(t) : Contains(LineAround(t, i), S_Warning)
    THEN "WarningOnlySuccess"
    ELSE "Failure"

T_FutureWarning == L_Future
T_ZeroDivTraceback == L_Traceback \o NL \o L_ZeroDiv

\* C8: the classification is Success when no failure indicator occurs in the
\* output, WarningOnlySuccess when indicators occur and every line holding
\* one also holds "Warning", Failure otherwise; "FutureWarning: x is
\* deprecated" is not a Failure and a ZeroDivisionError traceback is one.
C8_ClassificationRule ==
    (probe.fn = "classify" /\ probe.outcome # "pending") =>
        /\ probe.outcome = RuleOutcome(probe.arg)
        /\ probe.arg = T_FutureWarning => probe.outcome # "Failure"
        /\ probe.arg = T_ZeroDivTraceback => probe.outcome = "Failure"

\* a two-line output whose indicator lines are all warnings
C8_Witness ==
    /\ probe.fn = "classify"
    /\ probe.outcome = "WarningOnlySuccess"
    /\ probe.arg = L_WarnValue \o NL \o L_Hi

\* C9: execute_code_safe reports success = true exactly when the classifier
\* of the retry loop classifies the same text Success or WarningOnlySuccess.
C9_SafeFlagAgreesWithClassifier ==
    (probe.fn = "classify" /\ probe.outcome # "pending" /\ probe.safe # "pending") =>
        ((probe.safe = "true") <=> (probe.outcome \in Succeeding))

(***************************************************************************)
(* Properties of the extractor, checked under SpecExtract.                 *)
(***************************************************************************)
\* the literal lit stands in t at position i, letter case ignored when ci
StandsAt(t, i, lit, ci) ==
    /\ i + Len(lit) - 1 <= Len(t)
    /\ IF ci THEN LowerText(SubSeq(t, i, i + Len(lit) - 1)) = LowerText(lit)
             ELSE SubSeq(t, i, i + Len(lit) - 1) = lit

\* positions where a block opened by open and closed by close begins
BlockStarts(t, open, close, ci) ==
    {i \in 1..Len(t) :
        /\ StandsAt(t, i, open, ci)
        /\ \E q \in (i + Len(open))..Len(t) : StandsAt(t, q, close, ci)}

\* the interior of the first such block: from its opener to the next closer
FirstInterior(t, open, close, ci) ==
    LET i0 == MinOf(BlockStarts(t, open, close, ci))
        q0 == MinOf({q \in (i0 + Len(open))..Len(t) : StandsAt(t, q, close, ci)})
    IN  Slice(t, i0 + Len(open), q0 - 1)

\* some line starts, after optional blanks, with a structural keyword
\* followed by white space
KeywordAtLineStart(t) ==
    \E p \in 1..Len(t) : \E k \in 1..Len(raw_keywords) :
        /\ StandsAt(t, p, raw_keywords[k], FALSE)
        /\ p + Len(raw_keywords[k]) <= Len(t)
        /\ IsSpace(t[p + Len(raw_keywords[k])])
        /\ \E s \in 1..p :
              /\ s = 1 \/ t[s - 1] = "\n"
              /\ \A j \in s..(p - 1) : IsSpace(t[j])

\* what the priority order prescribes for t
PriorityResult(t) ==
    IF BlockStarts(t, S_TagOpen, S_Fence, TRUE) # {}
    THEN Strip(FirstInterior(t, S_TagOpen, S_Fence, TRUE))
    ELSE IF BlockStarts(t, S_Fence, S_Fence, FALSE) # {}
    THEN Strip(FirstInterior(t, S_Fence, S_Fence, FALSE))
    ELSE IF BlockStarts(t, S_Single, S_Single, FALSE) # {}
    THEN Strip(FirstInterior(t, S_Single, S_Single, FALSE))
    ELSE IF BlockStarts(t, S_Double, S_Double, FALSE) # {}
    THEN Strip(FirstInterior(t, S_Double, S_Double, FALSE))
    ELSE IF KeywordAtLineStart(t) THEN Strip(t)
    ELSE Empty

\* C10: extract_python_code returns the trimmed interior of the first match
\* of the highest-priority pattern that matches (tagged fence, generic fence,
\* triple single quotes, triple double quotes, raw code); for a text holding
\* a tagged fenced block the result is the trimmed interior of the first such
\* block, whatever precedes or follows it.
C10_PriorityOrder ==
    (probe.fn = "extract" /\ probe.done) =>
        /\ probe.res = PriorityResult(probe.arg)
        /\ BlockStarts(probe.arg, S_TagOpen, S_Fence, TRUE) # {} =>
              probe.res = Strip(FirstInterior(probe.arg, S_TagOpen, S_Fence, TRUE))

\* a tagged block right after a fence, so that the generic pattern matches
\* earlier in the text than the tagged one
C10_Witness ==
    /\ probe.fn = "extract"
    /\ probe.done
    /\ probe.arg = S_Fence \o O_TagUpper \o F_Code \o S_Fence
    /\ probe.res = F_Code

\* the text holds no fenced block, no triple-quoted block and no line that
\* begins with import, from, def or class
NothingRecoverable(t) ==
    /\ BlockStarts(t, S_Fence, S_Fence, FALSE) = {}
    /\ BlockStarts(t, S_Single, S_Single, FALSE) = {}
    /\ BlockStarts(t, S_Double, S_Double, FALSE) = {}
    /\ ~KeywordAtLineStart(t)

\* C11: extract_python_code returns the empty string exactly when no code is
\* recoverable: the text holds no fenced block, no triple-quoted block and no
\* line beginning with import, from, def or class.
C11_EmptyIffNothingRecoverable ==
    (probe.fn = "extract" /\ probe.done) =>
        (probe.res = Empty <=> NothingRecoverable(probe.arg))

(***************************************************************************)
(* Properties of extract_code_blocks, checked under SpecBlocks.            *)
(***************************************************************************)
\* the fences of t, read left to right without overlap
RECURSIVE FencesFrom(_, _)
FencesFrom(t, from) ==
    LET i == FindFrom(t, S_Fence, from)
    IN  IF i = 0 THEN << >> ELSE << i >> \o FencesFrom(t, i + Len(S_Fence))

\* the k-th fenced block of t runs from fence 2k-1 to fence 2k; it is
\* language-tagged when the tag follows its opening fence
BlockTagged(t, f, k) == StandsAt(t, f[2 * k - 1] + Len(S_Fence), S_Python, TRUE)

BlockInterior(t, f, k) ==
    Slice(t, f[2 * k - 1] + Len(S_Fence)
                + (IF BlockTagged(t, f, k) THEN Len(S_Python) ELSE 0),
          f[2 * k] - 1)

\* the trimmed non-empty interiors of the blocks of one kind, in text order
RECURSIVE InteriorsFrom(_, _, _, _)
InteriorsFrom(t, f, k, tagged) ==
    IF 2 * k > Len(f) THEN << >>
    ELSE (IF BlockTagged(t, f, k) = tagged /\ Strip(BlockInterior(t, f, k)) # Empty
          THEN << Strip(BlockInterior(t, f, k)) >> ELSE << >>)
         \o InteriorsFrom(t, f, k + 1, tagged)

FencedBlocks(t) ==
    InteriorsFrom(t, FencesFrom(t, 1), 1, TRUE)
        \o InteriorsFrom(t, FencesFrom(t, 1), 1, FALSE)

\* C12: extract_code_blocks returns exactly the fenced blocks of the text:
\* the trimmed interior of every language-tagged block first, then that of
\* every untagged block, empty entries discarded, and nothing that is not
\* the interior of a fenced block (such as prose between two blocks).
C12_ExactlyFencedBlocks ==
    (probe.fn = "blocks" /\ probe.done) => probe.res = FencedBlocks(probe.arg)

(***************************************************************************)
(* Properties of main, checked under SpecMain.                             *)
(***************************************************************************)
\* C14: in a pipeline run that starts the inspection stage, the session
\* record is written exactly once, at the end of the run: not before the run
\* ends, and once when it has ended, after a failed inspection, a failed
\* cleaning or verification.
C14_SessionWrittenOnceAtEnd ==
    probe.fn = "main" =>
        probe.saves = (IF probe.pc \in {"returned", "raised"} THEN 1 ELSE 0)

\* the outcomes after which the loop goes on to another attempt
Retried == {"Failure", "NoCodeFound", "CommunicationError"}

\* C28: in main, stages and attempts never overlap and run in order: a
\* request is sent only while main waits for the stage's call, the request
\* of attempt k+1 only after attempt k got its outcome, and a request of
\* the cleaning stage only after the inspection stage returned succeeded =
\* true; when inspection fails main returns and no request follows.
C28_StagesAndAttemptsInOrder ==
    [][ /\ (probe.fn = "main" /\ requests' = requests + 1) =>
              /\ probe.pc = "wait" /\ probe' = probe
              /\ last'.index = requests + 1
              /\ IF requests = 0 THEN last = NoAttempt
                 ELSE last.index = requests /\ last.outcome \in Retried
              /\ probe.stage \in {"inspection", "cleaning"}
              /\ (probe.stage = "inspection") <=> (probe.stages = << >>)
              /\ (probe.stage = "cleaning") <=>
                    (probe.stages = << [stage |-> "inspection", success |-> TRUE] >>)
        /\ (probe.fn = "main" /\ probe'.stages # probe.stages
                /\ ~probe'.stages[Len(probe'.stages)].success) =>
              /\ probe'.pc = "returned"
              /\ pc' = "idle"
        /\ (probe.fn = "main" /\ probe.pc \in {"returned", "raised"}) =>
              UNCHANGED vars
      ]_vars

\* the cleaning stage has sent the request of its second attempt
C28_Witness ==
    /\ probe.fn = "main"
    /\ probe.stage = "cleaning"
    /\ probe.stages = << [stage |-> "inspection", success |-> TRUE] >>
    /\ pc = "extract"
    /\ last.index = 2
    /\ last.request # P_Clean

(***************************************************************************)
(* Properties of the auto-fix, checked under SpecRepair.                   *)
(***************************************************************************)
\* positions of t where a top-level routine is defined: def at the start of
\* a line, blanks, a name
TopLevelDefs(t) ==
    {p \in 1..Len(t) :
        /\ p = 1 \/ t[p - 1] = "\n"
        /\ StandsAt(t, p, S_Def, FALSE)
        /\ SpaceRun(t, p + Len(S_Def)) >= 1
        /\ WordRun(t, p + Len(S_Def) + SpaceRun(t, p + Len(S_Def))) >= 1}

\* where the name of the routine defined at p begins, and the name
RoutineNameAt(t, p) == p + Len(S_Def) + SpaceRun(t, p + Len(S_Def))
RoutineName(t, p) ==
    Slice(t, RoutineNameAt(t, p), RoutineNameAt(t, p) + WordRun(t, RoutineNameAt(t, p)) - 1)

\* the routine defined at p is called somewhere after its definition: its
\* name, as a whole word, is followed by an opening bracket
CalledAfter(t, p) ==
    \E q \in (RoutineNameAt(t, p) + 1)..Len(t) :
        /\ StandsAt(t, q, RoutineName(t, p) \o S_LParen, FALSE)
        /\ ~IsWord(t[q - 1])

\* the code defines a top-level routine that is never called after its
\* definition
HasUncalledRoutine(t) ==
    \E p \in TopLevelDefs(t) : ~CalledAfter(t, p)

\* fixed is t with an invocation of a routine of t appended at its end
AppendsInvocation(t, fixed) ==
    \E p \in TopLevelDefs(t) :
        \/ fixed = t \o NL \o RoutineName(t, p) \o S_CallEmpty
        \/ fixed = t \o NL \o RoutineName(t, p) \o S_CallOpen \o FILENAME \o S_CallClose

\* C20: the repair step appends an invocation of the routine at the end of
\* the code exactly when the code defines a named top-level routine whose
\* name does not appear as a call after its definition; in every other case
\* the code reaches the executor unchanged.
C20_RepairRule ==
    (probe.fn = "repair" /\ probe.done) =>
        /\ ~probe.res.raised
        /\ IF HasUncalledRoutine(probe.arg)
           THEN AppendsInvocation(probe.arg, probe.res.code)
           ELSE probe.res.code = probe.arg

\* the names of the parameters declared by the parameter text: of every
\* comma-separated entry, what stands before its annotation or default
ParamName(entry) ==
    LET cut == {i \in 1..Len(entry) : entry[i] \in {":", "="}}
    IN  Strip(IF cut = {} THEN entry ELSE Slice(entry, 1, MinOf(cut) - 1))

DeclaredNames(params) ==
    {ParamName(e) : e \in {Split(params, <<",">>)[k] : k \in 1..Len(Split(params, <<",">>))}}

\* the name contains "file", "path" or "filename", letter case ignored
PathLikeName(n) ==
    \E k \in 1..Len(path_words) : Contains(LowerText(n), path_words[k])

\* C21: when the repair step appends an invocation, the call passes the
\* target path as a single string literal argument if some declared
\* parameter name contains "file", "path" or "filename", and passes no
\* argument otherwise; the repaired code ends with that call.
C21_ArgumentByParameterName ==
    (probe.fn = "repair" /\ probe.done /\ ~probe.res.raised
        /\ probe.res.code # probe.arg) =>
        LET routine == DefSearch(probe.arg)
        IN  probe.res.code =
                probe.arg \o NL \o routine.name
                    \o (IF \E n \in DeclaredNames(routine.params) : PathLikeName(n)
                        THEN S_CallOpen \o FILENAME \o S_CallClose
                        ELSE S_CallEmpty)

\* C30: the repair step is idempotent: applied to code it has already
\* repaired (or passed on), it appends nothing further.
C30_RepairIdempotent ==
    (probe.fn = "repair" /\ probe.done /\ ~probe.res.raised) =>
        AutoFix(probe.res.code) = [raised |-> FALSE, code |-> probe.res.code]

(***************************************************************************)
(* Properties of the executor's result text, checked under SpecExec.       *)
(***************************************************************************)
\* the statements the program runs: those before its first raise
BeforeFault(program) ==
    LET stops == {i \in 1..Len(program) : program[i].op = "raise"}
    IN  IF stops = {} THEN program ELSE SubSeq(program, 1, MinOf(stops) - 1)

\* what the program writes to the stream before it completes or faults
Written(program, stream) ==
    LET ws == SelectSeq(BeforeFault(program), LAMBDA st : st.op = stream)
    IN  Concat([k \in 1..Len(ws) |-> ws[k].text])

Completes(program) == \A i \in 1..Len(program) : program[i].op # "raise"

\* a finished call whose program ran to completion
CompletedRun ==
    /\ probe.fn = "exec"
    /\ probe.done
    /\ probe.res.executed
    /\ Completes(probe.arg.program)

\* C22 as stated: on normal completion the executor returns the stdout
\* content; non-empty stderr content is appended after a separator line
\* and the "STDERR:" label, for empty and for non-empty stdout alike; when
\* both are empty the "no output produced" sentinel is returned.
C22_StderrAlwaysAfterSeparator ==
    CompletedRun =>
        LET out == Written(probe.arg.program, "stdout")
            err == Written(probe.arg.program, "stderr")
        IN  /\ ~probe.res.raised
            /\ probe.res.value =
                  (IF err # Empty THEN out \o S_Separator \o S_StderrLabel \o err
                   ELSE IF out # Empty THEN out
                   ELSE S_NoOutput)

\* C22 amended: on normal completion the executor returns the stdout
\* content; non-empty stderr content is appended after the "STDERR:" label,
\* which a separator line precedes only when the stdout content is
\* non-empty; when both are empty the sentinel is returned.
C22_StderrAfterLabel ==
    CompletedRun =>
        LET out == Written(probe.arg.program, "stdout")
            err == Written(probe.arg.program, "stderr")
        IN  /\ ~probe.res.raised
            /\ probe.res.value =
                  (IF err # Empty /\ out # Empty
                       THEN out \o S_Separator \o S_StderrLabel \o err
                   ELSE IF err # Empty THEN S_StderrLabel \o err
                   ELSE IF out # Empty THEN out
                   ELSE S_NoOutput)

\* a program that wrote to stderr only
C22_Witness ==
    /\ CompletedRun
    /\ probe.arg.program = << StderrWrite(S_WarnLine) >>
    /\ probe.res.value = S_StderrLabel \o S_WarnLine

\* a finished call whose program raised
FaultedRun ==
    /\ probe.fn = "exec"
    /\ probe.done
    /\ probe.res.executed
    /\ ~Completes(probe.arg.program)

\* the statement the program stopped at
FaultOf(program) == program[Len(BeforeFault(program)) + 1]

\* C23: when the program raises a fault, the executor returns, in this
\* order: the stdout collected before the fault, a separator, a line naming
\* the fault kind and message, and a stack trace; nothing written by a
\* statement after the faulting one is in the result.
C23_FaultReportInOrder ==
    FaultedRun =>
        LET out    == Written(probe.arg.program, "stdout")
            f      == FaultOf(probe.arg.program)
            report == out \o S_Separator
                          \o S_ErrorPrefix \o KindName(f.kind) \o S_ColonSpace
                          \o f.text \o NL
                          \o S_TracebackLabel \o S_TracebackHead
        IN  /\ ~probe.res.raised
            /\ Len(probe.res.value) > Len(report)
            /\ SubSeq(probe.res.value, 1, Len(report)) = report
            /\ Contains(Slice(probe.res.value, Len(report) + 1, Len(probe.res.value)),
                        KindName(f.kind))

\* C25: every run of the executor in which the program raised a fault is
\* classified Failure by the retry loop, whatever the fault kind, the fault
\* message and the stdout printed before the fault: the executor hands the
\* loop a text, and the loop's error check never finds that text to be
\* Success or WarningOnlySuccess.
C25_FaultClassifiedFailure ==
    FaultedRun =>
        /\ ~probe.res.raised
        /\ Classify(probe.res.value) = "Failure"

\* C27: everything the program wrote to stdout or stderr before it
\* completed or faulted appears in the text the executor returns, on every
\* path that returns a text.
C27_NoCapturedOutputDropped ==
    (probe.fn = "exec" /\ probe.done /\ probe.res.executed /\ ~probe.res.raised) =>
        /\ Contains(probe.res.value, Written(probe.arg.program, "stdout"))
        /\ Contains(probe.res.value, Written(probe.arg.program, "stderr"))

(***************************************************************************)
(* Properties of the executor's namespace, checked under SpecNames.        *)
(***************************************************************************)
\* the names bound by the statements of the program before statement i
BoundBefore(program, i) ==
    {program[j].name : j \in {k \in 1..(i - 1) : program[k].op = "bind"}}

\* the first statement of the program that reads a name which neither the
\* program itself has bound by then nor the builtins hold, or 0
FirstForeignRead(program) ==
    LET bad == {i \in 1..Len(program) :
                   /\ program[i].op = "read"
                   /\ program[i].name \notin BoundBefore(program, i) \cup Builtins}
    IN  IF bad = {} THEN 0 ELSE MinOf(bad)

C26_FailedChatLeavesHistory ==
    probe.fn = "chat" =>
        LET h == probe.conversation_history
        IN  /\ probe.last \notin {"none", "returned"} => h = probe.before
            /\ \A i \in 1..Len(h) :
                  h[i].role = "user" =>
                      (i < Len(h) /\ h[i + 1].role = "assistant")

====
